---------------------------- MODULE Spec2Model ----------------------------
(***************************************************************************)
(* CameraMotionWarmer (src/app/utils/CameraMotionWarmer.js): the warming   *)
(* scheduler.  One CameraMotionWarmer object, the browser's timer table,   *)
(* the clock, and the executor runs (warmReplicateAPI calls) suspended at  *)
(* their awaits.  Every action is one synchronous stretch of JavaScript:   *)
(* a public method, a timer callback, or the continuation of a run after   *)
(* one await.  createDummyImage and the callbacks are taken to return      *)
(* normally; an await may resolve or reject.                               *)
(***************************************************************************)
EXTENDS Integers, FiniteSets, Sequences, Bags, TLC

\* ----- bounds of the model ------------------------------------------------
Tick == 2000          \* the clock advances in steps of Tick ms
MaxTicks == 1         \* number of clock steps explored
StartTime == 20000    \* Date.now() when the object is constructed
MaxRuns == 2          \* executor runs that may be suspended at the same time

\* ----- program constants --------------------------------------------------
DefaultCooldown == 10000
PollInterval == 2000

CooldownOptions == {0, 2000}    \* options.cooldownPeriod / newConfig.cooldownPeriod
Statuses == {"pending", "succeeded", "failed"}
Terminal == {"succeeded", "failed"}
FetchResults == {"ok", "notok", "throw"}
JsonResults == Statuses \cup {"throw"}
ActivePc == {"create", "json", "wait", "poll", "polljson"}

VARIABLES
  now,                        \* Date.now()
  isWarming,                  \* this.isWarming
  lastWarmingTime,            \* this.lastWarmingTime
  lastSuccessfulWarmingTime,  \* this.lastSuccessfulWarmingTime
  warmingTimer,               \* this.warmingTimer: 0 is null, else a timer id
  cooldownPeriod,             \* this.config.cooldownPeriod
  timers,                     \* the browser's outstanding setTimeout entries of triggerWarmCall
  runs,                       \* the bag of suspended warmReplicateAPI calls: position and locals
  frozen,                     \* history: freezeWarming() was called and resetWarmingCooldown() not yet
  lastOp                      \* history: the step just taken and the callbacks it invoked

progVars == <<isWarming, lastWarmingTime, lastSuccessfulWarmingTime, warmingTimer,
              cooldownPeriod, timers, runs>>
vars == <<now, isWarming, lastWarmingTime, lastSuccessfulWarmingTime, warmingTimer,
          cooldownPeriod, timers, runs, frozen, lastOp>>

Max(a, b) == IF a >= b THEN a ELSE b

Op(name, path, s, c, e) ==
  [name |-> name, path |-> path, starts |-> s, completes |-> c, errors |-> e]

\* a run suspended at the creation request (line 109); lswtMoved is history:
\* lastSuccessfulWarmingTime is no longer what it was when the run passed the
\* entry guard; watched is history: the run a liveness property follows
NewRun == [pc |-> "create", status |-> "none", wakeAt |-> 0, polls |-> 0,
           lswtMoved |-> FALSE, watched |-> FALSE]

\* history: lastSuccessfulWarmingTime becomes v while the runs of B are in flight
MarkMoved(B, v) ==
  IF v = lastSuccessfulWarmingTime
    THEN B
    ELSE BagOfAll(LAMBDA r : [r EXCEPT !.lswtMoved = TRUE], B)

\* options.cooldownPeriod || 10000
ConstructorCooldown(opt) == IF opt = 0 THEN DefaultCooldown ELSE opt

Init ==
  /\ now = StartTime
  /\ isWarming = FALSE
  /\ lastWarmingTime = 0
  /\ lastSuccessfulWarmingTime = 0
  /\ warmingTimer = 0
  /\ cooldownPeriod \in {ConstructorCooldown(o) : o \in CooldownOptions}
  /\ timers = {}
  /\ runs = EmptyBag
  /\ frozen = FALSE
  /\ lastOp = Op("constructor", "none", 0, 0, 0)

\* ----- the browser --------------------------------------------------------
TimerIds(ts) == {t.id : t \in ts}

\* setTimeout returns an id no live handle holds
FreshTimerId(ts, h) ==
  CHOOSE n \in 1..(Cardinality(ts) + 2) :
    /\ n \notin TimerIds(ts) \cup {h}
    /\ \A m \in 1..(n - 1) : m \in TimerIds(ts) \cup {h}

ClearTimeoutNoop(ts, h) == ts
\* clearTimeout(h)
ClearTimeout(ts, h) == {t \in ts : t.id # h}

\* the number of executor runs between their entry guard and their finally block
ActiveRuns == BagCardinality(runs)
CanSuspend == ActiveRuns < MaxRuns

\* ----- the status query ---------------------------------------------------
shouldWarmAPI ==
  ~isWarming /\ (now - lastSuccessfulWarmingTime) > cooldownPeriod

getStatus ==
  [isWarming |-> isWarming,
   lastWarmingTime |-> lastWarmingTime,
   timeSinceLastWarming |-> now - lastWarmingTime,
   timeSinceLastSuccessfulWarming |-> now - lastSuccessfulWarmingTime,
   canWarm |-> shouldWarmAPI]

\* ----- the trigger gate ---------------------------------------------------
RemainingCooldownFromAttempt == Max(0, cooldownPeriod - (now - lastWarmingTime))
RemainingCooldownFull == cooldownPeriod
\* lines 64-66
RemainingCooldown == Max(0, cooldownPeriod - (now - lastSuccessfulWarmingTime))

TriggerNeverDrops == FALSE
\* line 53
TriggerDrops == isWarming

warmReplicateAPINoGuard ==
  /\ isWarming' = TRUE
  /\ runs' = runs (+) SetToBag({NewRun})

\* warmReplicateAPI up to its first await (lines 94-109)
warmReplicateAPI ==
  IF isWarming
    THEN UNCHANGED <<isWarming, runs>>
    ELSE /\ isWarming' = TRUE
         /\ runs' = runs (+) SetToBag({NewRun})

StartsBy == IF isWarming THEN 0 ELSE 1

triggerWarmCall ==
  IF TriggerDrops
    THEN /\ UNCHANGED <<progVars, now, frozen>>
         /\ lastOp' = Op("trigger", "dropped", 0, 0, 0)
    ELSE LET cleared == IF warmingTimer # 0 THEN ClearTimeout(timers, warmingTimer) ELSE timers
             remainingCooldown == RemainingCooldown
         IN IF remainingCooldown > 0
              THEN LET id == FreshTimerId(cleared, warmingTimer)
                   IN /\ timers' = cleared \cup {[id |-> id, fireAt |-> now + remainingCooldown]}
                      /\ warmingTimer' = id
                      /\ UNCHANGED <<isWarming, lastWarmingTime, lastSuccessfulWarmingTime,
                                     cooldownPeriod, runs, now, frozen>>
                      /\ lastOp' = Op("trigger", "queued", 0, 0, 0)
              ELSE /\ (~isWarming => CanSuspend)
                   /\ timers' = cleared
                   /\ warmReplicateAPI
                   /\ UNCHANGED <<warmingTimer, lastWarmingTime, lastSuccessfulWarmingTime,
                                  cooldownPeriod, now, frozen>>
                   /\ lastOp' = Op("trigger", "immediate", StartsBy, 0, 0)

handleUserInteraction == triggerWarmCall

\* the setTimeout callback of lines 70-73
TimerFiresKeepsHandle ==
  \E t \in timers :
    /\ now >= t.fireAt
    /\ (~isWarming => CanSuspend)
    /\ timers' = timers \ {t}
    /\ warmReplicateAPI
    /\ UNCHANGED <<warmingTimer, lastWarmingTime, lastSuccessfulWarmingTime, cooldownPeriod,
                   now, frozen>>
    /\ lastOp' = Op("timer", "fired", StartsBy, 0, 0)

TimerFires ==
  \E t \in timers :
    /\ now >= t.fireAt
    /\ (~isWarming => CanSuspend)
    /\ timers' = timers \ {t}
    /\ warmReplicateAPI
    /\ warmingTimer' = 0
    /\ UNCHANGED <<lastWarmingTime, lastSuccessfulWarmingTime, cooldownPeriod, now, frozen>>
    /\ lastOp' = Op("timer", "fired", StartsBy, 0, 0)

\* ----- the public controls ------------------------------------------------
stopDetectionKeepsTimer ==
  /\ warmingTimer' = 0
  /\ UNCHANGED <<timers, isWarming, lastWarmingTime, lastSuccessfulWarmingTime,
                 cooldownPeriod, runs, now, frozen>>
  /\ lastOp' = Op("stopDetection", "none", 0, 0, 0)

stopDetection ==
  /\ IF warmingTimer # 0
       THEN /\ timers' = ClearTimeout(timers, warmingTimer)
            /\ warmingTimer' = 0
       ELSE UNCHANGED <<timers, warmingTimer>>
  /\ UNCHANGED <<isWarming, lastWarmingTime, lastSuccessfulWarmingTime, cooldownPeriod,
                 runs, now, frozen>>
  /\ lastOp' = Op("stopDetection", "none", 0, 0, 0)

destroy == stopDetection

freezeWarming ==
  /\ isWarming' = TRUE
  /\ frozen' = TRUE
  /\ UNCHANGED <<lastWarmingTime, lastSuccessfulWarmingTime, warmingTimer, cooldownPeriod,
                 timers, runs, now>>
  /\ lastOp' = Op("freezeWarming", "none", 0, 0, 0)

resetWithoutUnfreeze ==
  /\ lastSuccessfulWarmingTime' = now
  /\ frozen' = FALSE
  /\ runs' = MarkMoved(runs, now)
  /\ UNCHANGED <<isWarming, lastWarmingTime, warmingTimer, cooldownPeriod, timers, now>>
  /\ lastOp' = Op("resetWarmingCooldown", "none", 0, 0, 0)

resetWarmingCooldown ==
  /\ isWarming' = FALSE
  /\ lastSuccessfulWarmingTime' = now
  /\ frozen' = FALSE
  /\ runs' = MarkMoved(runs, now)
  /\ UNCHANGED <<lastWarmingTime, warmingTimer, cooldownPeriod, timers, now>>
  /\ lastOp' = Op("resetWarmingCooldown", "none", 0, 0, 0)

updateConfig ==
  \E c \in CooldownOptions :
    /\ cooldownPeriod' = c
    /\ UNCHANGED <<isWarming, lastWarmingTime, lastSuccessfulWarmingTime, warmingTimer,
                   timers, runs, now, frozen>>
    /\ lastOp' = Op("updateConfig", "none", 0, 0, 0)

\* ----- the executor after its first await ---------------------------------
\* outcome: "succeeded" | "failed" (lines 149-159), "http" (lines 120-123),
\*          "pollfetch" (line 144 into 161-165), "raised" (a rejected await into 161-165)
EndLastWarmingTimeAlways(outcome) == now
EndLastWarmingTime(outcome) ==
  IF outcome = "http" THEN lastWarmingTime ELSE now

EndLastSuccessfulNever(outcome) == lastSuccessfulWarmingTime
EndLastSuccessfulAlways(outcome) == now
EndLastSuccessful(outcome) ==
  IF outcome = "succeeded" THEN now ELSE lastSuccessfulWarmingTime

EndIsWarmingNoFinally(outcome) == IF outcome = "http" THEN isWarming ELSE FALSE
\* the finally block, lines 166-168
EndIsWarming(outcome) == FALSE

CompleteCalls(outcome) == IF outcome = "succeeded" THEN 1 ELSE 0
ErrorCallsNoCatch(outcome) == IF outcome \in {"failed", "http"} THEN 1 ELSE 0
ErrorCalls(outcome) == IF outcome = "succeeded" THEN 0 ELSE 1

EndRun(r, outcome) ==
  /\ lastWarmingTime' = EndLastWarmingTime(outcome)
  /\ lastSuccessfulWarmingTime' = EndLastSuccessful(outcome)
  /\ isWarming' = EndIsWarming(outcome)
  /\ runs' = MarkMoved(runs (-) SetToBag({r}), EndLastSuccessful(outcome))
  /\ lastOp' = Op("end", outcome, 0, CompleteCalls(outcome), ErrorCalls(outcome))
  /\ UNCHANGED <<warmingTimer, cooldownPeriod, timers, now, frozen>>

Continue(r, rec) ==
  /\ runs' = (runs (-) SetToBag({r})) (+) SetToBag({rec})
  /\ lastOp' = Op("await", "none", 0, 0, 0)
  /\ UNCHANGED <<isWarming, lastWarmingTime, lastSuccessfulWarmingTime, warmingTimer,
                 cooldownPeriod, timers, now, frozen>>

AfterSnapshotUntilSucceeded(r, st) ==
  IF st = "succeeded"
    THEN EndRun(r, st)
    ELSE Continue(r, [r EXCEPT !.pc = "wait", !.status = st,
                                            !.wakeAt = now + PollInterval])

\* the snapshot finalPrediction has been (re)assigned: the loop test of line 135
AfterSnapshot(r, st) ==
  IF st \in Terminal
    THEN EndRun(r, st)
    ELSE Continue(r, [r EXCEPT !.pc = "wait", !.status = st,
                                            !.wakeAt = now + PollInterval])

\* await fetch('/api/predictions/warm') settles for run r (lines 109-123)
CreateSettles(r) ==
  /\ r.pc = "create"
  /\ \E res \in FetchResults :
       CASE res = "ok"    -> Continue(r, [r EXCEPT !.pc = "json"])
         [] res = "notok" -> EndRun(r, "http")
         [] res = "throw" -> EndRun(r, "raised")

CreateResponds == \E r \in BagToSet(runs) : CreateSettles(r)

\* await response.json() settles for run r (lines 125-135)
JsonSettles(r, results) ==
  /\ r.pc = "json"
  /\ \E res \in results :
       IF res = "throw" THEN EndRun(r, "raised") ELSE AfterSnapshot(r, res)

JsonResolves == \E r \in BagToSet(runs) : JsonSettles(r, JsonResults)

\* the 2 second wait of line 137 is over; the status fetch of line 140 is sent
WaitOver(r) ==
  /\ r.pc = "wait"
  /\ now >= r.wakeAt
  /\ Continue(r, [r EXCEPT !.pc = "poll", !.wakeAt = 0, !.polls = @ + 1])

WaitElapses == \E r \in BagToSet(runs) : WaitOver(r)

\* await fetch(`/api/predictions/${id}`) settles for run r (lines 140-145)
PollSettles(r) ==
  /\ r.pc = "poll"
  /\ \E res \in FetchResults :
       CASE res = "ok"    -> Continue(r, [r EXCEPT !.pc = "polljson"])
         [] res = "notok" -> EndRun(r, "pollfetch")
         [] res = "throw" -> EndRun(r, "raised")

PollResponds == \E r \in BagToSet(runs) : PollSettles(r)

PollJsonSettlesStale(r, results) ==
  /\ r.pc = "polljson"
  /\ \E res \in results :
       IF res = "throw" THEN EndRun(r, "raised") ELSE AfterSnapshot(r, r.status)

\* await statusResponse.json() settles for run r (line 142, then line 135)
PollJsonSettles(r, results) ==
  /\ r.pc = "polljson"
  /\ \E res \in results :
       IF res = "throw" THEN EndRun(r, "raised") ELSE AfterSnapshot(r, res)

PollJsonResolves == \E r \in BagToSet(runs) : PollJsonSettles(r, JsonResults)

\* ----- the clock ----------------------------------------------------------
Advance ==
  /\ now + Tick <= StartTime + MaxTicks * Tick
  /\ now' = now + Tick
  /\ lastOp' = Op("tick", "none", 0, 0, 0)
  /\ UNCHANGED <<progVars, frozen>>

Next ==
  \/ triggerWarmCall
  \/ handleUserInteraction
  \/ TimerFires
  \/ stopDetection
  \/ destroy
  \/ freezeWarming
  \/ resetWarmingCooldown
  \/ updateConfig
  \/ CreateResponds
  \/ JsonResolves
  \/ WaitElapses
  \/ PollResponds
  \/ PollJsonResolves
  \/ Advance

Spec == Init /\ [][Next]_vars

\* ----- the same program with an environment that lets every run finish -----
\* the last clock value explored
Horizon == StartTime + MaxTicks * Tick

\* the prediction reaches a terminal status while the clock is still explored:
\* no snapshot is pending when the next 2 second wait would end past Horizon
TimelyJsonResults ==
  IF now + PollInterval <= Horizon THEN JsonResults ELSE JsonResults \ {"pending"}

TimelyJsonResolves == \E r \in BagToSet(runs) : JsonSettles(r, TimelyJsonResults)
TimelyPollJsonResolves == \E r \in BagToSet(runs) : PollJsonSettles(r, TimelyJsonResults)

\* one continuation of run r
RunStep(r) ==
  \/ CreateSettles(r)
  \/ JsonSettles(r, TimelyJsonResults)
  \/ WaitOver(r)
  \/ PollSettles(r)
  \/ PollJsonSettles(r, TimelyJsonResults)

AnyRunStep == \E r \in BagToSet(runs) : RunStep(r)

\* history: start following one of the runs in flight
Watched == \E r \in BagToSet(runs) : r.watched
Watch ==
  /\ ~Watched
  /\ \E r \in BagToSet(runs) :
       runs' = (runs (-) SetToBag({r})) (+) SetToBag({[r EXCEPT !.watched = TRUE]})
  /\ lastOp' = Op("watch", "none", 0, 0, 0)
  /\ UNCHANGED <<now, isWarming, lastWarmingTime, lastSuccessfulWarmingTime, warmingTimer,
                 cooldownPeriod, timers, frozen>>

WatchedStep == \E r \in BagToSet(runs) : r.watched /\ RunStep(r)

LiveNext ==
  \/ triggerWarmCall
  \/ handleUserInteraction
  \/ TimerFires
  \/ stopDetection
  \/ destroy
  \/ freezeWarming
  \/ resetWarmingCooldown
  \/ updateConfig
  \/ CreateResponds
  \/ TimelyJsonResolves
  \/ WaitElapses
  \/ PollResponds
  \/ TimelyPollJsonResolves
  \/ Advance
  \/ Watch

\* time passes, due timers run, and every await settles
LiveSpec ==
  /\ Init
  /\ [][LiveNext]_vars
  /\ WF_vars(Advance)
  /\ WF_vars(TimerFires)
  /\ WF_vars(AnyRunStep)
  /\ WF_vars(WatchedStep)

TypeOK ==
  /\ isWarming \in BOOLEAN
  /\ warmingTimer \in Nat
  /\ \A t \in timers : t.id \in Nat \ {0} /\ t.fireAt \in Nat
  /\ IsABag(runs)
  /\ \A r \in BagToSet(runs) : r.pc \in ActivePc

\* ----- steps of an executor run, as the properties below see them ---------
\* this step takes a warmReplicateAPI call past its entry guard
RunStarts == BagCardinality(runs') = BagCardinality(runs) + 1
\* this step is the last one of run r
RunEnds(r) ==
  /\ r \in BagToSet(runs)
  /\ lastOp'.name = "end"
  /\ runs' = MarkMoved(runs (-) SetToBag({r}), lastSuccessfulWarmingTime')
ErrorOutcomes == {"failed", "pollfetch", "raised"}

\* C1: at most one executor run is between its entry guard and its finally
\* block, in every reachable state.
C1_AtMostOneActiveRun == ActiveRuns <= 1

\* C2: whenever an executor run begins, at least cooldownPeriod has elapsed
\* since the current lastSuccessfulWarmingTime.
C2_CooldownOnEveryStart ==
  [][RunStarts => (now - lastSuccessfulWarmingTime >= cooldownPeriod)]_vars

\* C3: from freezeWarming() until the next resetWarmingCooldown(), no executor
\* run starts.
C3_NoStartWhileFrozen ==
  [][(frozen /\ frozen') => ~RunStarts]_vars

\* C4: a triggerWarmCall made while isWarming is true starts no run and changes
\* nothing, except that it might cancel the pending timer.
C4_TriggerWhileWarmingIsDropped ==
  [][(lastOp'.name = "trigger" /\ isWarming) =>
        /\ ~RunStarts
        /\ lastOp'.starts = 0
        /\ UNCHANGED <<isWarming, lastWarmingTime, lastSuccessfulWarmingTime, runs>>
        /\ timers' \subseteq timers]_vars

C4_Witness ==
  /\ lastOp.name = "trigger" /\ lastOp.path = "dropped"
  /\ isWarming /\ runs # EmptyBag /\ timers # {}

\* C5: a triggerWarmCall made while isWarming is false and the cooldown has
\* elapsed starts the executor before it returns: isWarming is true,
\* onWarmingStart was invoked once, and no timer was scheduled.
C5_ImmediateStart ==
  [][(/\ lastOp'.name = "trigger"
      /\ ~isWarming
      /\ now - lastSuccessfulWarmingTime >= cooldownPeriod) =>
        /\ isWarming'
        /\ RunStarts
        /\ lastOp'.starts = 1
        /\ timers' \subseteq timers]_vars

C5_Witness ==
  /\ lastOp.name = "trigger" /\ lastOp.path = "immediate"
  /\ isWarming /\ runs # EmptyBag
  /\ cooldownPeriod > 0 /\ lastSuccessfulWarmingTime > 0

\* C6: a triggerWarmCall made while isWarming is false and the cooldown has not
\* elapsed leaves exactly one delayed fire outstanding, due after the remaining
\* cooldown, in place of any earlier one; at most one delayed fire is ever
\* outstanding, it is the one warmingTimer holds, and only that one fires.
C6_SingleDelayedFire ==
  /\ [](Cardinality(timers) <= 1 /\ \A t \in timers : t.id = warmingTimer)
  /\ [][(/\ lastOp'.name = "trigger"
         /\ ~isWarming
         /\ cooldownPeriod - (now - lastSuccessfulWarmingTime) > 0) =>
           /\ warmingTimer' # 0
           /\ timers' = {[id |-> warmingTimer',
                          fireAt |-> now + (cooldownPeriod - (now - lastSuccessfulWarmingTime))]}
           /\ ~RunStarts
           /\ lastOp'.starts = 0]_vars
  /\ [][(lastOp'.name = "timer") =>
           \E t \in timers : /\ t.id = warmingTimer
                             /\ now >= t.fireAt
                             /\ timers' = timers \ {t}]_vars

C6_Witness ==
  /\ lastOp.name = "trigger" /\ lastOp.path = "queued"
  /\ warmingTimer = 2
  /\ \E t \in timers : t.id = 2 /\ t.fireAt > now

\* C7: right after a run ends succeeded, canWarm is false; canWarm is true only
\* when isWarming is false and cooldownPeriod has elapsed since
\* lastSuccessfulWarmingTime.
C7_NoWarmRightAfterSuccess ==
  /\ (lastOp.name = "end" /\ lastOp.path = "succeeded") =>
        (~getStatus.canWarm /\ lastSuccessfulWarmingTime = now)
  /\ getStatus.canWarm =>
        (~isWarming /\ now >= lastSuccessfulWarmingTime + cooldownPeriod)

C7_Witness ==
  /\ lastOp.name = "end" /\ lastOp.path = "succeeded"
  /\ cooldownPeriod > 0 /\ ~isWarming

\* C8 (as claimed): after a run that ends failed, with a failed poll fetch or
\* with a raised failure, lastSuccessfulWarmingTime has the value it had when
\* the run started, and lastWarmingTime is the time the run ended.
C8_UnchangedSinceRunStart ==
  [][(lastOp'.name = "end" /\ lastOp'.path \in ErrorOutcomes) =>
        /\ \A r \in BagToSet(runs) : RunEnds(r) => ~r.lswtMoved
        /\ lastWarmingTime' = now]_vars

\* C8 (amended): the last step of a run that ends failed, with a failed poll
\* fetch or with a raised failure leaves lastSuccessfulWarmingTime as it was
\* just before, and sets lastWarmingTime to the time the run ended.
C8_ErrorEndKeepsLastSuccess ==
  [][(lastOp'.name = "end" /\ lastOp'.path \in ErrorOutcomes) =>
        /\ lastSuccessfulWarmingTime' = lastSuccessfulWarmingTime
        /\ lastWarmingTime' = now]_vars

C8_Witness ==
  /\ lastOp.name = "end" /\ lastOp.path = "pollfetch"
  /\ lastWarmingTime = now /\ lastSuccessfulWarmingTime < now

\* C9: a run whose creation request returns a non-OK status invokes
\* onWarmingError once and onWarmingComplete never, has made no status poll,
\* changes neither lastWarmingTime nor lastSuccessfulWarmingTime (not when it
\* starts, not when it ends), and ends with isWarming false.
C9_NonOkCreation ==
  /\ [][RunStarts => UNCHANGED <<lastWarmingTime, lastSuccessfulWarmingTime>>]_vars
  /\ [][(lastOp'.name = "end" /\ lastOp'.path = "http") =>
          /\ lastOp'.errors = 1 /\ lastOp'.completes = 0
          /\ \A r \in BagToSet(runs) : RunEnds(r) => (r.pc = "create" /\ r.polls = 0)
          /\ UNCHANGED <<lastWarmingTime, lastSuccessfulWarmingTime>>
          /\ ~isWarming']_vars

C9_Witness ==
  /\ lastOp.name = "end" /\ lastOp.path = "http"
  /\ lastOp.errors = 1 /\ ~isWarming /\ lastWarmingTime = 0

\* C10: when an executor run ends, on any exit path, isWarming is false.
C10_FinallyClearsFlag ==
  (lastOp.name = "end") => ~isWarming

C10_Witness ==
  /\ lastOp.name = "end" /\ lastOp.path = "raised"
  /\ ~isWarming /\ frozen

C12_FreezeDropsResetRearms ==
  /\ [][(lastOp.name = "freezeWarming" /\ lastOp'.name = "trigger") =>
          (~RunStarts /\ lastOp'.starts = 0 /\ UNCHANGED <<timers, warmingTimer, runs>>)]_vars
  /\ [][(lastOp'.name = "resetWarmingCooldown") =>
          (~isWarming' /\ lastSuccessfulWarmingTime' = now)]_vars
  /\ [][(lastOp'.name = "trigger" /\ ~isWarming) =>
          IF now - lastSuccessfulWarmingTime >= cooldownPeriod
            THEN RunStarts /\ timers' \subseteq timers
            ELSE ~RunStarts /\ Cardinality(timers') = 1 /\ ~isWarming']_vars

\* the cooldown was anchored by a reset (no run has ended) and has elapsed
C12_Witness ==
  /\ lastOp.name = "trigger" /\ lastOp.path = "immediate"
  /\ lastWarmingTime = 0 /\ lastSuccessfulWarmingTime > 0 /\ cooldownPeriod > 0
  /\ now >= lastSuccessfulWarmingTime + cooldownPeriod

\* C13: a trigger that queues leaves a single timer due at
\* lastSuccessfulWarmingTime + cooldownPeriod, whenever the trigger arrived;
\* while those two do not change, the pending timer stays the only one and
\* keeps that due time; a trigger at or after that time (isWarming false)
\* starts the run at once.
TimersAligned ==
  \A t \in timers : t.fireAt = lastSuccessfulWarmingTime + cooldownPeriod

C13_TriggersCollapse ==
  /\ [][(lastOp'.name = "trigger" /\ timers' # {} /\ timers' # timers) =>
          (TimersAligned' /\ Cardinality(timers') = 1)]_vars
  /\ [][(TimersAligned /\ UNCHANGED <<lastSuccessfulWarmingTime, cooldownPeriod>>) =>
          (TimersAligned' /\ Cardinality(timers') <= 1)]_vars
  /\ [][(/\ lastOp'.name = "trigger" /\ ~isWarming
         /\ now >= lastSuccessfulWarmingTime + cooldownPeriod) =>
          (RunStarts /\ timers' = {})]_vars

C13_Witness ==
  /\ lastOp.name = "trigger" /\ lastOp.path = "queued"
  /\ now > lastSuccessfulWarmingTime
  /\ \E t \in timers : t.fireAt = lastSuccessfulWarmingTime + cooldownPeriod /\ t.fireAt > now

\* C15: a status poll is sent only by a run whose snapshot is neither succeeded
\* nor failed, after its 2 second wait; a run whose creation response is
\* already succeeded ends with no poll made, onWarmingComplete invoked once,
\* and lastSuccessfulWarmingTime and lastWarmingTime both set to that moment.
C15_PollOnlyWhilePending ==
  /\ [][(lastOp'.name = "await" /\
         \E q \in BagToSet(runs') : q.pc = "poll" /\ CopiesIn(q, runs') > CopiesIn(q, runs)) =>
          \E r \in BagToSet(runs) :
             /\ r.pc = "wait" /\ r.status = "pending" /\ now >= r.wakeAt
             /\ runs' = (runs (-) SetToBag({r})) (+)
                          SetToBag({[r EXCEPT !.pc = "poll", !.wakeAt = 0, !.polls = @ + 1]})]_vars
  /\ [][(lastOp'.name = "end" /\ lastOp'.path = "succeeded") =>
          /\ lastOp'.completes = 1 /\ lastOp'.errors = 0
          /\ lastSuccessfulWarmingTime' = now /\ lastWarmingTime' = now
          /\ \A r \in BagToSet(runs) :
                (RunEnds(r) /\ r.pc = "json") => (r.polls = 0 /\ r.status = "none")]_vars
  /\ [](\A r \in BagToSet(runs) :
          /\ r.pc \in {"create", "json"} => (r.polls = 0 /\ r.status = "none")
          /\ r.pc \in {"wait", "poll", "polljson"} => r.status = "pending")

\* succeeded with the clock still at its first value: no 2 second wait is over
C15_Witness ==
  /\ lastOp.name = "end" /\ lastOp.path = "succeeded" /\ lastOp.completes = 1
  /\ now = StartTime
  /\ lastSuccessfulWarmingTime = now /\ lastWarmingTime = now

\* C16: a warmReplicateAPI call that finds isWarming true (a timer firing
\* during a freeze or a run) has no effect: onWarmingStart is not invoked, no
\* run is added, and isWarming, lastWarmingTime, lastSuccessfulWarmingTime are
\* unchanged.
C16_GuardedCallHasNoEffect ==
  [][(lastOp'.name = "timer" /\ isWarming) =>
        /\ lastOp'.starts = 0
        /\ ~RunStarts
        /\ UNCHANGED <<isWarming, lastWarmingTime, lastSuccessfulWarmingTime, runs,
                       cooldownPeriod>>]_vars

C16_Witness ==
  /\ lastOp.name = "timer" /\ lastOp.starts = 0
  /\ isWarming /\ frozen /\ runs = EmptyBag

\* C17: stopDetection()/destroy() leaves no timer outstanding and warmingTimer
\* null, changes nothing else, changes nothing at all when repeated, and while
\* no timer is outstanding only a trigger starts a run or schedules a timer.
C17_StopDetectionIdempotent ==
  /\ [][(lastOp'.name = "stopDetection") =>
          /\ timers' = {} /\ warmingTimer' = 0
          /\ UNCHANGED <<isWarming, lastWarmingTime, lastSuccessfulWarmingTime,
                         cooldownPeriod, runs, now>>]_vars
  /\ [][(lastOp.name = "stopDetection" /\ lastOp'.name = "stopDetection") =>
          UNCHANGED <<progVars, now>>]_vars
  /\ [][(timers = {} /\ (RunStarts \/ timers' # {})) => lastOp'.name = "trigger"]_vars

C17_Witness ==
  /\ lastOp.name = "stopDetection"
  /\ timers = {} /\ warmingTimer = 0
  /\ ~isWarming /\ now < lastSuccessfulWarmingTime + cooldownPeriod

\* C18: triggerWarmCall starts a run at once only in states where
\* shouldWarmAPI() is true at that instant.
C18_GateAgreesWithStatus ==
  [][(lastOp'.name = "trigger" /\ RunStarts) => shouldWarmAPI]_vars

\* C20: warmingTimer is non-null exactly when a delayed fire is outstanding.
C20_HandleIffOutstanding ==
  (warmingTimer # 0) <=> (timers # {})

\* C14: a run that is followed ends (every await settles, time passes, the
\* prediction reaches a terminal status); the number of runs in flight drops
\* only when a run ends with one of its outcomes, one run at a time, and
\* stopDetection/destroy, triggers, timer fires, freezeWarming, updateConfig
\* and the clock leave every run in flight where it is.
C14_RunsEndAndAreNotCancelled ==
  /\ Watched ~> ~Watched
  /\ [][(BagCardinality(runs') < BagCardinality(runs)) =>
          /\ lastOp'.name = "end"
          /\ lastOp'.path \in ErrorOutcomes \cup {"http", "succeeded"}
          /\ BagCardinality(runs') = BagCardinality(runs) - 1]_vars
  /\ [][(lastOp'.name \in {"stopDetection", "trigger", "timer", "freezeWarming",
                           "updateConfig", "tick"}) =>
          \A r \in BagToSet(runs) : CopiesIn(r, runs') >= CopiesIn(r, runs)]_vars
  /\ [][(lastOp'.name = "end") =>
          \A r \in BagToSet(runs) :
             (RunEnds(r) /\ r.pc \in {"wait", "poll", "polljson"}) =>
                (r.pc # "wait" /\ lastOp'.path \in {"succeeded", "failed", "pollfetch", "raised"})]_vars

\* a followed run is in its poll loop while a timer was cancelled by stopDetection
C14_Witness ==
  /\ lastOp.name = "stopDetection"
  /\ \E r \in BagToSet(runs) : r.watched /\ r.pc \in {"wait", "poll", "polljson"}

\* C19 (as claimed): a delayed fire is not lost: when the timer of an accepted
\* trigger fires, a run starts or a delayed fire stays outstanding.
C19_DelayedFireNotLost ==
  [][(lastOp'.name = "timer") => (RunStarts \/ timers' # {})]_vars

\* C19 (amended): an accepted trigger starts a run or leaves a timer; the timer
\* stays until it fires, stopDetection cancels it or an accepted trigger
\* supersedes it, and a due timer does fire; the fire starts a run exactly when
\* isWarming is false at that moment, and leaves no timer and a null handle
\* either way.
TimerDue == timers # {} /\ \A t \in timers : t.fireAt <= Horizon
TimerSettled ==
  \/ lastOp.name \in {"timer", "stopDetection"}
  \/ lastOp.name = "trigger" /\ lastOp.path \in {"queued", "immediate"}

C19_AcceptedTriggerCallsExecutor ==
  /\ [][(lastOp'.name = "trigger" /\ ~isWarming) => (RunStarts \/ timers' # {})]_vars
  /\ [][(timers # {} /\ timers' # timers) =>
          \/ lastOp'.name \in {"timer", "stopDetection"}
          \/ lastOp'.name = "trigger" /\ lastOp'.path \in {"queued", "immediate"}]_vars
  /\ [][(lastOp'.name = "timer") =>
          /\ RunStarts <=> ~isWarming
          /\ timers' = {} /\ warmingTimer' = 0]_vars
  /\ (TimerDue ~> TimerSettled)

C19_Witness ==
  /\ lastOp.name = "timer" /\ lastOp.starts = 0
  /\ frozen /\ isWarming /\ timers = {} /\ warmingTimer = 0
=============================================================================
